---- MODULE Spec2Model ----
(***************************************************************************)
(* The etcd-backed semaphore client of src/etcd.go: EtcdLockClient with    *)
(* its three methods Init, Get and Set, and the constructor                *)
(* NewEtcdLockClient, run by several clients against one etcd key.         *)
(*                                                                         *)
(* The etcd v2 keys API behind the KeysAPI interface is modelled for one   *)
(* key by what its three calls do:                                         *)
(*   Create(key, value)       Set with PrevExist = PrevNoExist: fails with *)
(*                            ErrorCodeNodeExist when the key exists.      *)
(*   Get(key, nil)            fails with ErrorCodeKeyNotFound when the key *)
(*                            is absent, else returns the node with its    *)
(*                            Value and ModifiedIndex.                     *)
(*   Set(key, value, opts)    with opts.PrevIndex # 0 a compare-and-swap   *)
(*                            on the node's ModifiedIndex (ErrorCode-      *)
(*                            TestFailed on a mismatch, ErrorCodeKeyNot-   *)
(*                            Found on an absent key); with PrevIndex = 0  *)
(*                            "no comparison is made" and, PrevExist being *)
(*                            left at PrevIgnore, the key is written       *)
(*                            whether or not it exists.                    *)
(* Every successful write raises the store's index and stamps it on the    *)
(* node as its ModifiedIndex.                                              *)
(***************************************************************************)
EXTENDS Integers, Sequences, FiniteSets, TLC

\* Bounds of the model.
NumClients == 2
MaxIndex == 3
MaxBuiltIndex == 1

Clients == 1..NumClients

VARIABLES
    node,        \* the etcd node at keypath: NoNode, or [Value, ModifiedIndex]
    etcdIndex,   \* the store's index (X-Etcd-Index)
    sem,         \* sem[c]: the *Semaphore c holds from its last Get, as c changed it
    last,        \* the last call of the client, by whom, and how it ended
    writers,     \* writers[c]: whose writes landed since c's last Get: own, other
    lastCommit,  \* the last Set that landed: who made it and with which *Semaphore
    creates      \* how many Create calls have succeeded

vars == <<node, etcdIndex, sem, last, writers, lastCommit, creates>>

----------------------------------------------------------------------------
\* Values

NoNode == [absent |-> TRUE]
NilSem == [nil |-> TRUE]
NoCall == [op |-> "none"]
NoCommit == [by |-> 0]
NoFault == "none"
Unavailable == "unavailable"
Faults == {NoFault, Unavailable}

\* The record layout: Index is carried by the store, never in the payload.
Marshal(s) == [semaphore |-> s.Semaphore, max |-> s.Max, holders |-> s.Holders]

Unmarshal(v) ==
    [Index |-> 0, Semaphore |-> v.semaphore, Max |-> v.max, Holders |-> v.holders]

\* Init's initial semaphore: open, one holder allowed.
\* (InitSemClosed: the same with no slot left open.)
InitSemClosed == [Index |-> 0, Semaphore |-> 0, Max |-> 1, Holders |-> <<>>]

InitSem == [Index |-> 0, Semaphore |-> 1, Max |-> 1, Holders |-> <<>>]

----------------------------------------------------------------------------
\* The etcd keys API, for the one key

Written(idx, value) ==
    [node  |-> [Value |-> value, ModifiedIndex |-> idx + 1],
     index |-> idx + 1,
     err   |-> "nil"]

Failed(n, idx, e) == [node |-> n, index |-> idx, err |-> e]

KeysAPICreate(n, idx, value, fault) ==
    IF fault # NoFault THEN Failed(n, idx, "Unavailable")
    ELSE IF n # NoNode THEN Failed(n, idx, "NodeExist")
    ELSE Written(idx, value)

KeysAPIGet(n, fault) ==
    IF fault # NoFault THEN [node |-> NoNode, err |-> "Unavailable"]
    ELSE IF n = NoNode THEN [node |-> NoNode, err |-> "KeyNotFound"]
    ELSE [node |-> n, err |-> "nil"]

KeysAPISet(n, idx, value, prevIndex, fault) ==
    IF fault # NoFault THEN Failed(n, idx, "Unavailable")
    ELSE IF prevIndex = 0 THEN Written(idx, value)
    ELSE IF n = NoNode THEN Failed(n, idx, "KeyNotFound")
    ELSE IF n.ModifiedIndex # prevIndex THEN Failed(n, idx, "TestFailed")
    ELSE Written(idx, value)

----------------------------------------------------------------------------
\* EtcdLockClient

\* setopts := &client.SetOptions{PrevIndex: sem.Index}
\* (SetOptionsZero: the options with PrevIndex left unset.)
SetOptionsZero(s) == 0

\* (SetOptionsOffByOne: PrevIndex set to the index after the fetched one.)
SetOptionsOffByOne(s) == s.Index + 1

SetOptionsPrevIndex(s) == s.Index

\* The error Init returns for the error of its Create.
\* (InitErrNotAbsorbed: every error of the Create returned as it is.)
InitErrNotAbsorbed(e) == e

\* (InitErrAllAbsorbed: every error of the Create taken for success.)
InitErrAllAbsorbed(e) == "nil"

InitErr(e) == IF e = "NodeExist" THEN "nil" ELSE e

\* Init as it would be were the initial copy written with Set, not Create.
EtcdLockClientInitBySet(n, idx, fault) ==
    LET r == KeysAPISet(n, idx, Marshal(InitSem), 0, fault)
    IN  [node |-> r.node, index |-> r.index, err |-> InitErr(r.err),
         storeErr |-> r.err, calls |-> 1, created |-> r.err = "nil"]

EtcdLockClientInit(n, idx, fault) ==
    LET r == KeysAPICreate(n, idx, Marshal(InitSem), fault)
    IN  [node |-> r.node, index |-> r.index, err |-> InitErr(r.err),
         storeErr |-> r.err, calls |-> 1, created |-> r.err = "nil"]

\* sem.Index = resp.Node.ModifiedIndex
\* (StampNothing: the Index left as Unmarshal gave it.)
StampNothing(s, n) == s

\* (StampCreatedIndex: the Index taken from the node's CreatedIndex, which is
\* the index of the first write to the key.)
StampCreatedIndex(s, n) == [s EXCEPT !.Index = 1]

StampIndex(s, n) == [s EXCEPT !.Index = n.ModifiedIndex]

\* Get as it would be were a failed read answered with the open semaphore.
EtcdLockClientGetDefault(n, fault) ==
    LET r == KeysAPIGet(n, fault)
    IN  IF r.err # "nil"
        THEN [sem |-> InitSem, err |-> "nil", storeErr |-> r.err, calls |-> 1,
              store |-> n]
        ELSE [sem |-> StampIndex(Unmarshal(r.node.Value), r.node),
              err |-> "nil", storeErr |-> r.err, calls |-> 1, store |-> n]

\* Get as it would be were the node written back on every read.
EtcdLockClientGetTouch(n, fault) ==
    LET r == KeysAPIGet(n, fault)
    IN  IF r.err # "nil"
        THEN [sem |-> NilSem, err |-> r.err, storeErr |-> r.err, calls |-> 1,
              store |-> n]
        ELSE [sem |-> StampIndex(Unmarshal(r.node.Value), r.node),
              err |-> "nil", storeErr |-> r.err, calls |-> 1,
              store |-> [n EXCEPT !.ModifiedIndex = @ + 1]]

\* The result of Get: the semaphore and error returned, and the node at
\* keypath (store) as the call leaves it.
EtcdLockClientGet(n, fault) ==
    LET r == KeysAPIGet(n, fault)
    IN  IF r.err # "nil"
        THEN [sem |-> NilSem, err |-> r.err, storeErr |-> r.err, calls |-> 1,
              store |-> n]
        ELSE [sem |-> StampIndex(Unmarshal(r.node.Value), r.node),
              err |-> "nil", storeErr |-> r.err, calls |-> 1, store |-> n]

\* Set as it would be were a conflict answered by writing over the record.
EtcdLockClientSetForced(n, idx, s, fault) ==
    IF s = NilSem
    THEN [node |-> n, index |-> idx, err |-> "NilSemaphore", storeErr |-> "nil",
          calls |-> 0]
    ELSE LET r == KeysAPISet(n, idx, Marshal(s), SetOptionsPrevIndex(s), fault)
             f == KeysAPISet(n, idx, Marshal(s), 0, fault)
         IN  IF r.err = "TestFailed"
             THEN [node |-> f.node, index |-> f.index, err |-> r.err,
                   storeErr |-> r.err, calls |-> 2]
             ELSE [node |-> r.node, index |-> r.index, err |-> r.err,
                   storeErr |-> r.err, calls |-> 1]

\* Set as it would be were a conflict retried until the write lands.
EtcdLockClientSetRetry(n, idx, s, fault) ==
    IF s = NilSem
    THEN [node |-> n, index |-> idx, err |-> "NilSemaphore", storeErr |-> "nil",
          calls |-> 0]
    ELSE LET r == KeysAPISet(n, idx, Marshal(s), SetOptionsPrevIndex(s), fault)
             f == KeysAPISet(n, idx, Marshal(s), 0, fault)
         IN  IF r.err = "TestFailed"
             THEN [node |-> f.node, index |-> f.index, err |-> f.err,
                   storeErr |-> f.err, calls |-> 1]
             ELSE [node |-> r.node, index |-> r.index, err |-> r.err,
                   storeErr |-> r.err, calls |-> 1]

\* Set as it would be were a nil semaphore taken for an empty one.
EtcdLockClientSetNilAsEmpty(n, idx, s, fault) ==
    LET e == [Index |-> 0, Semaphore |-> 0, Max |-> 0, Holders |-> <<>>]
        a == IF s = NilSem THEN e ELSE s
        r == KeysAPISet(n, idx, Marshal(a), SetOptionsPrevIndex(a), fault)
    IN  [node |-> r.node, index |-> r.index, err |-> r.err, storeErr |-> r.err,
         calls |-> 1]

EtcdLockClientSet(n, idx, s, fault) ==
    IF s = NilSem
    THEN [node |-> n, index |-> idx, err |-> "NilSemaphore", storeErr |-> "nil",
          calls |-> 0]
    ELSE LET r == KeysAPISet(n, idx, Marshal(s), SetOptionsPrevIndex(s), fault)
         IN  [node |-> r.node, index |-> r.index, err |-> r.err,
              storeErr |-> r.err, calls |-> 1]

----------------------------------------------------------------------------
\* The callers

\* What a caller does to a fetched semaphore before committing it.
HoldersOf(s) == {s.Holders[i] : i \in 1..Len(s.Holders)}

TakeSlot(s, c) ==
    [s EXCEPT !.Semaphore = s.Semaphore - 1, !.Holders = Append(s.Holders, c)]

GiveSlot(s, c) ==
    [s EXCEPT !.Semaphore = s.Semaphore + 1,
              !.Holders = SelectSeq(s.Holders, LAMBDA h : h # c)]

\* The *Semaphore values a caller builds itself, without a Get: it names
\* itself the holder and leaves the slot open, under an Index of its choice.
BuiltSems(c) ==
    {[Index |-> i, Semaphore |-> 1, Max |-> 1, Holders |-> <<c>>] :
        i \in 0..MaxBuiltIndex}

\* A write by c has landed: what each client has seen land since its Get.
Landed(c) ==
    [d \in Clients |-> writers[d] \cup {IF d = c THEN "own" ELSE "other"}]

Init ==
    /\ node = NoNode
    /\ etcdIndex = 0
    /\ sem = [c \in Clients |-> NilSem]
    /\ last = NoCall
    /\ writers = [c \in Clients |-> {}]
    /\ lastCommit = NoCommit
    /\ creates = 0

\* c calls Init (op "Init"), or NewEtcdLockClient, which calls it (op "New").
CallInit(c, op, fault) ==
    LET r == EtcdLockClientInit(node, etcdIndex, fault)
    IN  /\ r.index <= MaxIndex
        /\ node' = r.node
        /\ etcdIndex' = r.index
        /\ last' = [by |-> c, op |-> op, err |-> r.err, calls |-> r.calls,
                    fault |-> fault, storeErr |-> r.storeErr,
                    client |-> (op = "New" /\ r.err = "nil"),
                    created |-> r.created, before |-> node, after |-> r.node]
        /\ writers' = IF r.created THEN Landed(c) ELSE writers
        /\ creates' = IF r.created THEN creates + 1 ELSE creates
        /\ UNCHANGED <<sem, lastCommit>>

CallGet(c, fault) ==
    LET r == EtcdLockClientGet(node, fault)
    IN  /\ r.store # NoNode => r.store.ModifiedIndex <= MaxIndex
        /\ node' = r.store
        /\ etcdIndex' = IF r.store = NoNode THEN etcdIndex ELSE r.store.ModifiedIndex
        /\ sem' = [sem EXCEPT ![c] = r.sem]
        /\ last' = [by |-> c, op |-> "Get", err |-> r.err, calls |-> r.calls,
                    fault |-> fault, storeErr |-> r.storeErr,
                    ret |-> r.sem, before |-> node, after |-> r.store,
                    indexBefore |-> etcdIndex]
        /\ writers' = IF r.err = "nil" THEN [writers EXCEPT ![c] = {}] ELSE writers
        /\ UNCHANGED <<lastCommit, creates>>

CallSet(c, s, fault) ==
    LET r == EtcdLockClientSet(node, etcdIndex, s, fault)
    IN  /\ r.index <= MaxIndex
        /\ node' = r.node
        /\ etcdIndex' = r.index
        /\ last' = [by |-> c, op |-> "Set", err |-> r.err, calls |-> r.calls,
                    fault |-> fault, storeErr |-> r.storeErr,
                    arg |-> s, fetched |-> (s # NilSem /\ s = sem[c]),
                    stale |-> writers[c], before |-> node, after |-> r.node]
        /\ writers' = IF r.err = "nil" THEN Landed(c) ELSE writers
        /\ lastCommit' = IF r.err = "nil" THEN [by |-> c, sem |-> s] ELSE lastCommit
        /\ UNCHANGED <<sem, creates>>

----------------------------------------------------------------------------
\* Spec: any client calls any method with any argument; the store answers.

New == \E c \in Clients : CallInit(c, "New", NoFault)

DoInit == \E c \in Clients : CallInit(c, "Init", NoFault)

Get == \E c \in Clients : CallGet(c, NoFault)

Take ==
    \E c \in Clients :
        /\ sem[c] # NilSem
        /\ sem[c].Semaphore > 0
        /\ c \notin HoldersOf(sem[c])
        /\ sem' = [sem EXCEPT ![c] = TakeSlot(sem[c], c)]
        /\ UNCHANGED <<node, etcdIndex, last, writers, lastCommit, creates>>

GiveBack ==
    \E c \in Clients :
        /\ sem[c] # NilSem
        /\ c \in HoldersOf(sem[c])
        /\ sem' = [sem EXCEPT ![c] = GiveSlot(sem[c], c)]
        /\ UNCHANGED <<node, etcdIndex, last, writers, lastCommit, creates>>

SetFetched == \E c \in Clients : sem[c] # NilSem /\ CallSet(c, sem[c], NoFault)

SetNil == \E c \in Clients : CallSet(c, NilSem, NoFault)

SetBuilt == \E c \in Clients : \E s \in BuiltSems(c) : CallSet(c, s, NoFault)

Next == New \/ DoInit \/ Get \/ SetFetched \/ SetNil \/ SetBuilt

Spec == Init /\ [][Next]_vars

\* SpecProto: the callers follow the protocol: they commit only what they
\* fetched, after taking a slot in it or giving one back.
NextProto == New \/ DoInit \/ Get \/ Take \/ GiveBack \/ SetFetched

SpecProto == Init /\ [][NextProto]_vars

\* SpecFault: the store may fail to answer any call (the request does not
\* reach it, the client gets a transport error); the callers call Init, Get
\* and Set of what they fetched or of nil.
NewF == \E c \in Clients : \E f \in Faults : CallInit(c, "New", f)

DoInitF == \E c \in Clients : \E f \in Faults : CallInit(c, "Init", f)

GetF == \E c \in Clients : \E f \in Faults : CallGet(c, f)

SetFetchedF ==
    \E c \in Clients : \E f \in Faults : sem[c] # NilSem /\ CallSet(c, sem[c], f)

SetNilF == \E c \in Clients : \E f \in Faults : CallSet(c, NilSem, f)

NextFault == NewF \/ DoInitF \/ GetF \/ SetFetchedF \/ SetNilF

SpecFault == Init /\ [][NextFault]_vars

\* SpecLive: each client runs the caller's loop on an answering store: it
\* fetches, takes the slot if it is free, commits, and fetches again before it
\* commits again. Every client that can take its next step takes it.
Fetch(c) == CallGet(c, NoFault)

Commit(c) ==
    /\ sem[c] # NilSem
    /\ "own" \notin writers[c]
    /\ CallSet(c, sem[c], NoFault)

LoopFetch == \E c \in Clients : Fetch(c)

LoopCommit == \E c \in Clients : Commit(c)

NextLive == New \/ LoopFetch \/ Take \/ LoopCommit

SpecLive ==
    /\ Init
    /\ [][NextLive]_vars
    /\ WF_vars(New)
    /\ \A c \in Clients : WF_vars(Fetch(c)) /\ WF_vars(Commit(c))

----------------------------------------------------------------------------
\* The claims

IsInit == last.op \in {"Init", "New"}
IsSet == last.op = "Set"
Others(c) == Clients \ {c}

\* The invariants of the record, on a stored value and on a *Semaphore.
ValidValue(v) ==
    /\ 0 <= v.semaphore
    /\ v.semaphore <= v.max
    /\ v.semaphore + Len(v.holders) = v.max

ValidSem(s) == ValidValue(Marshal(s))

\* C1: a Set of the state a client got from Get, made after another client's
\* write landed since that Get, fails with the compare-failed (conflict) error:
\* a Set of a fetched state succeeds only if no other write came in between.
C1_CommitDetectsInterveningWrite ==
    (IsSet /\ last.fetched /\ "other" \in last.stale) => last.err = "TestFailed"

C1_Witness ==
    /\ IsSet
    /\ last.fetched
    /\ "other" \in last.stale
    /\ last.err = "TestFailed"
    /\ lastCommit # NoCommit
    /\ lastCommit.by # last.by

\* C2: a Set that fails with the conflict error leaves the node as it was:
\* the stored max, semaphore, holders and the ModifiedIndex are unchanged.
C2_ConflictLeavesRecord ==
    (IsSet /\ last.err = "TestFailed") =>
        /\ last.after = last.before
        /\ node = last.before
        /\ etcdIndex = last.before.ModifiedIndex

C2_Witness ==
    /\ IsSet
    /\ last.err = "TestFailed"
    /\ last.before # NoNode
    /\ Marshal(last.arg) # last.before.Value

\* C3: no lost updates. When the clients commit only what they fetched, after
\* taking a slot or giving one back, the stored record has
\* semaphore + len(holders) = max in every state, and a Set lands only if no
\* write at all landed since the Get of the state it commits.
C3_NoLostUpdates ==
    /\ node # NoNode =>
           node.Value.semaphore + Len(node.Value.holders) = node.Value.max
    /\ (IsSet /\ last.err = "nil") => last.stale = {}

C3_Witness ==
    /\ IsSet
    /\ last.err = "TestFailed"
    /\ last.arg.Holders = <<last.by>>
    /\ \E d \in Others(last.by) : node.Value.holders = <<d>>

\* C4: Init is idempotent under concurrency. At most one Create succeeds, and
\* exactly one once any Init has returned; every Init returns nil; the create
\* writes the open record (max 1, semaphore 1, no holders), which is what the
\* key holds until a Set lands.
C4_IdempotentInit ==
    /\ creates <= 1
    /\ IsInit =>
           /\ last.err = "nil"
           /\ last.after # NoNode
           /\ creates = 1
           /\ last.created => last.before = NoNode
    /\ (node # NoNode /\ lastCommit = NoCommit) =>
           /\ node.Value.max = 1
           /\ node.Value.semaphore = 1
           /\ node.Value.holders = <<>>

C4_Witness ==
    /\ IsInit
    /\ ~last.created
    /\ last.err = "nil"
    /\ creates = 1
    /\ lastCommit = NoCommit
    /\ "other" \in writers[last.by]

\* C5: Init, alone or from NewEtcdLockClient, on a key that holds a record
\* returns nil and leaves the node untouched: same value, same ModifiedIndex;
\* NewEtcdLockClient then returns the client.
C5_InitLeavesExisting ==
    (IsInit /\ last.before # NoNode) =>
        /\ last.err = "nil"
        /\ ~last.created
        /\ last.after = last.before
        /\ node = last.before
        /\ last.op = "New" => last.client

C5_Witness ==
    /\ IsInit
    /\ last.before # NoNode
    /\ last.before.Value.semaphore = 0
    /\ \E d \in Others(last.by) : last.before.Value.holders = <<d>>
    /\ last.after = last.before

\* C6: Set is conditioned on the version for every non-nil state: a Set whose
\* Index differs from the node's ModifiedIndex never replaces the record.
C6_SetAlwaysConditioned ==
    (/\ IsSet
     /\ last.arg # NilSem
     /\ last.before # NoNode
     /\ last.arg.Index # last.before.ModifiedIndex) =>
        /\ last.err # "nil"
        /\ last.after = last.before

\* C7: a Get after a Set has landed, with no write since, returns the
\* semaphore, max and holders of the committed state, under an Index that
\* differs from the Index the committed state carried.
C7_FetchReflectsCommit ==
    (/\ last.op = "Get"
     /\ last.err = "nil"
     /\ lastCommit # NoCommit) =>
        /\ last.ret.Semaphore = lastCommit.sem.Semaphore
        /\ last.ret.Holders = lastCommit.sem.Holders
        /\ last.ret.Max = lastCommit.sem.Max
        /\ last.ret.Index # lastCommit.sem.Index

C7_Witness ==
    /\ last.op = "Get"
    /\ last.err = "nil"
    /\ lastCommit # NoCommit
    /\ lastCommit.sem.Holders = <<lastCommit.by>>
    /\ last.ret.Holders = <<lastCommit.by>>
    /\ last.by # lastCommit.by

\* C8, as claimed: whatever non-nil state is passed to Set with the current
\* version, the record stored by it has 0 <= semaphore <= max and
\* semaphore + len(holders) = max.
C8_AnyCommitKeepsInvariant ==
    (/\ IsSet
     /\ last.err = "nil"
     /\ last.before # NoNode
     /\ last.arg.Index = last.before.ModifiedIndex) =>
        ValidValue(last.after.Value)

\* C8, amended: the record Init creates satisfies the invariants, and Set
\* stores the max, semaphore and holders it is given as they are, so the
\* record it stores satisfies them when the state passed to it does.
C8_ValidCommitKeepsInvariant ==
    /\ (IsInit /\ last.created) => ValidValue(last.after.Value)
    /\ (IsSet /\ last.err = "nil") =>
           /\ last.after.Value = Marshal(last.arg)
           /\ ValidSem(last.arg) => ValidValue(last.after.Value)

C8_Witness ==
    /\ IsSet
    /\ last.err = "nil"
    /\ ValidSem(last.arg)
    /\ last.before # NoNode
    /\ last.after.ModifiedIndex # last.before.ModifiedIndex

\* C9: only Init creates the record. A Set on an absent key fails and leaves
\* the key absent, and no call removes a record that exists.
C9_OnlyInitCreates ==
    /\ (IsSet /\ last.before = NoNode) =>
           /\ last.err # "nil"
           /\ last.after = NoNode
    /\ (last # NoCall /\ last.before # NoNode) => last.after # NoNode

\* C10: Set of a nil semaphore returns its own error, makes no call of the
\* keys API, and leaves the node and the store's index as they were.
C10_NilSetRejected ==
    (IsSet /\ last.arg = NilSem) =>
        /\ last.err = "NilSemaphore"
        /\ last.calls = 0
        /\ last.after = last.before
        /\ node = last.before

C10_Witness ==
    /\ IsSet
    /\ last.arg = NilSem
    /\ last.err = "NilSemaphore"
    /\ last.before # NoNode

\* C11: Init returns nil only if a record is at the key when it returns.
\* When the Create fails for another reason than the key existing, Init
\* returns that error, and NewEtcdLockClient returns no client; it returns
\* the client exactly when Init returned nil.
C11_InitSuccessMeansRecord ==
    IsInit =>
        /\ last.err = "nil" => (last.after # NoNode /\ node # NoNode)
        /\ last.storeErr \notin {"nil", "NodeExist"} =>
               (last.err = last.storeErr /\ ~last.client)
        /\ last.op = "New" => (last.client <=> last.err = "nil")

C11_Witness ==
    /\ last.op = "New"
    /\ last.fault = Unavailable
    /\ last.err = "Unavailable"
    /\ ~last.client
    /\ node = NoNode

\* C12: Get on a key that holds no record returns an error (key not found)
\* and no semaphore: never an open or default one.
C12_GetAbsentFails ==
    (last.op = "Get" /\ last.before = NoNode) =>
        /\ last.err = "KeyNotFound"
        /\ last.ret = NilSem
        /\ sem[last.by] = NilSem

C12_Witness ==
    /\ last.op = "Get"
    /\ last.before = NoNode
    /\ last.err = "KeyNotFound"
    /\ creates = 0

\* C13: Get has no side effect. It leaves the node and the store's index as
\* they were, so every Set a client could make next (of what it holds, of nil,
\* of a state it builds) ends as it would have ended without the Get.
SetInputs(d) ==
    {NilSem} \cup BuiltSems(d) \cup (IF d = last.by THEN {} ELSE {sem[d]})

C13_GetHasNoSideEffect ==
    last.op = "Get" =>
        /\ last.after = last.before
        /\ node = last.before
        /\ etcdIndex = last.indexBefore
        /\ \A d \in Clients : \A s \in SetInputs(d) :
               EtcdLockClientSet(node, etcdIndex, s, NoFault).err =
               EtcdLockClientSet(last.before, last.indexBefore, s, NoFault).err

C13_Witness ==
    /\ last.op = "Get"
    /\ last.err = "nil"
    /\ \E d \in Others(last.by) :
           /\ sem[d] # NilSem
           /\ sem[d].Index = node.ModifiedIndex
           /\ writers[d] = {}

\* C14: mutual exclusion at capacity 1. When the clients take the slot only
\* in a fetched state that has one left, the record has max 1 and at most one
\* holder, and a Set that lands keeps every other client's hold: a client's
\* take never lands on a record another client holds.
C14_MutualExclusion ==
    /\ node # NoNode =>
           /\ node.Value.max = 1
           /\ Len(node.Value.holders) <= 1
    /\ (IsSet /\ last.err = "nil") =>
           HoldersOf(Unmarshal(last.before.Value)) \subseteq
               (HoldersOf(last.arg) \cup {last.by})

C14_Witness ==
    /\ IsSet
    /\ last.err = "TestFailed"
    /\ last.arg.Semaphore = 0
    /\ last.arg.Holders = <<last.by>>
    /\ lastCommit # NoCommit
    /\ lastCommit.by # last.by
    /\ lastCommit.sem.Holders = <<lastCommit.by>>
    /\ node.Value.holders = <<lastCommit.by>>

\* C15: no spurious conflict. The Index Get returns is the node's
\* ModifiedIndex at that read, and a Set of a fetched state, made with no
\* write landed since its Get and answered by the store, succeeds.
C15_NoSpuriousConflict ==
    /\ (last.op = "Get" /\ last.err = "nil") =>
           last.ret.Index = last.before.ModifiedIndex
    /\ (IsSet /\ last.fetched /\ last.stale = {} /\ last.fault = NoFault) =>
           last.err = "nil"

C15_Witness ==
    /\ IsSet
    /\ last.fetched
    /\ last.stale = {}
    /\ last.fault = NoFault
    /\ last.err = "nil"
    /\ last.before.ModifiedIndex > 1

\* C16: a stale token never succeeds again. A Set of a fetched state after
\* any write has landed since its Get, another client's or the client's own
\* Set of that state, fails with the conflict error and changes nothing.
C16_StaleTokenFails ==
    (IsSet /\ last.fetched /\ last.stale # {}) =>
        /\ last.err = "TestFailed"
        /\ last.after = last.before

C16_Witness ==
    /\ IsSet
    /\ last.fetched
    /\ last.stale = {"own"}
    /\ last.err = "TestFailed"
    /\ lastCommit.by = last.by

\* C17: at most one winner per version. The Index carried by a Set that lands
\* is greater than the Index carried by the Set that landed before it, so no
\* two Sets that land carry the same Index.
C17_OneWinnerPerToken ==
    [][(/\ last'.op = "Set"
        /\ last'.err = "nil"
        /\ etcdIndex' # etcdIndex
        /\ lastCommit # NoCommit) =>
            last'.arg.Index > lastCommit.sem.Index]_vars

C17_Witness ==
    /\ IsSet
    /\ last.err = "TestFailed"
    /\ lastCommit # NoCommit
    /\ lastCommit.by # last.by
    /\ last.arg.Index = lastCommit.sem.Index

\* C18: progress. In the caller's loop a Set conflicts only after another
\* client's Set has landed since the Get, and under fair scheduling a Set
\* lands eventually.
C18_Progress ==
    /\ []((IsSet /\ last.err = "TestFailed") =>
              (lastCommit # NoCommit /\ "other" \in last.stale))
    /\ <>(lastCommit # NoCommit)

C18_Witness ==
    /\ IsSet
    /\ last.err = "TestFailed"
    /\ "other" \in last.stale
    /\ lastCommit # NoCommit
    /\ sem[lastCommit.by] # NilSem
    /\ writers[lastCommit.by] = {}

====
